---- MODULE Spec2Model ----
(***************************************************************************)
(* Market Dashboard: the traffic-light classification of the six market    *)
(* indicators (data_sources.py), the composite valuation score and action  *)
(* guidance (DataManager.calculate_composite_score), the demo data         *)
(* (demo_data.py) and the signals view's action matrix (app.py).           *)
(*                                                                         *)
(* Numbers.  An indicator reading is a Python float.  The model keeps a    *)
(* reading as an integer number of tenths (22.5 is 225), so every          *)
(* threshold of the source is written Tenths(20), Tenths(30), ...  The     *)
(* three non-finite floats are the values NaN, PosInf and NegInf, and the  *)
(* comparison operators Lt and Le treat them as IEEE-754 does.             *)
(* A score (the mean of the proxies 25/50/75) is an exact fraction         *)
(* [num, den] in lowest terms.                                             *)
(***************************************************************************)
EXTENDS Integers, Sequences, FiniteSets, TLC

VARIABLES
    pc,         \* position of the running entry point
    caller,     \* which entry point runs: "test", a view, or a bare fragment
    input,      \* the arguments handed to a fragment that is applied alone
    metrics,    \* the dict get_all_metrics / get_demo_metrics builds
    composite,  \* the dict calculate_composite_score / get_demo_composite_score returns
    view        \* what the running view has put on the page

vars == <<pc, caller, input, metrics, composite, view>>

(***************************************************************************)
(* Bounds                                                                  *)
(***************************************************************************)
\* Readings are taken within Margin tenths on either side of every cut point,
\* scores within Margin points on either side of every policy threshold.
Margin == 2

(***************************************************************************)
(* Floats                                                                  *)
(***************************************************************************)
Tenths(x) == x * 10

PosInf == Tenths(1000000)
NegInf == 0 - PosInf
NaN == PosInf + 1

NonFinite == {NaN, PosInf, NegInf}
IsFinite(v) == v \notin NonFinite

\* Python's a < b and a <= b on floats: every comparison with NaN is False.
Lt(a, b) == a # NaN /\ b # NaN /\ a < b
Le(a, b) == a # NaN /\ b # NaN /\ a <= b

\* np.clip(v, lo, hi): NaN stays NaN.
Clip(v, lo, hi) == IF v = NaN THEN NaN ELSE IF v < lo THEN lo ELSE IF v > hi THEN hi ELSE v

(***************************************************************************)
(* Python dicts                                                            *)
(***************************************************************************)
\* {} : the dict a provider returns from its except branch.
EmptyDict == [k \in {} |-> 0]
\* A variable that holds nothing yet.
Unset == [unset |-> TRUE]

\* The truth value of a dict: False exactly for {}.
Truthy(d) == DOMAIN d # {}
\* d.get(key, default)
Get(d, key, default) == IF key \in DOMAIN d THEN d[key] ELSE default

Names == {"cape", "pe_ratio", "buffett", "margin_debt", "concentration", "sentiment"}
States == {"green", "yellow", "red"}

(***************************************************************************)
(* Traffic-light chains of the six providers                               *)
(***************************************************************************)
\* C1 mutant: the last branch tests "> 30" as the on-page legend words it, and
\* a reading of exactly 30 is given no state.
CapeStateGap(current_cape) ==
    IF Lt(current_cape, Tenths(20)) THEN "green"
    ELSE IF Lt(current_cape, Tenths(30)) THEN "yellow"
    ELSE IF Lt(Tenths(30), current_cape) THEN "red"
    ELSE "unbound"

CapeState(current_cape) ==
    IF Lt(current_cape, Tenths(20)) THEN "green"
    ELSE IF Lt(current_cape, Tenths(30)) THEN "yellow"
    ELSE "red"

\* C2 mutant: the first test is inclusive, so exactly 18 is green.
PeStateInclusive(current_pe) ==
    IF Le(current_pe, Tenths(18)) THEN "green"
    ELSE IF Lt(current_pe, Tenths(24)) THEN "yellow"
    ELSE "red"

PeState(current_pe) ==
    IF Lt(current_pe, Tenths(18)) THEN "green"
    ELSE IF Lt(current_pe, Tenths(24)) THEN "yellow"
    ELSE "red"

BuffettState(ratio) ==
    IF Lt(ratio, Tenths(120)) THEN "green"
    ELSE IF Lt(ratio, Tenths(150)) THEN "yellow"
    ELSE "red"

\* C4 mutant: strict tests like the other valuation indicators.
MarginDebtStateStrict(margin_debt_yoy) ==
    IF Lt(margin_debt_yoy, Tenths(0)) THEN "green"
    ELSE IF Lt(margin_debt_yoy, Tenths(10)) THEN "yellow"
    ELSE "red"

MarginDebtState(margin_debt_yoy) ==
    IF Le(margin_debt_yoy, Tenths(0)) THEN "green"
    ELSE IF Le(margin_debt_yoy, Tenths(10)) THEN "yellow"
    ELSE "red"

ConcentrationState(concentration) ==
    IF Lt(concentration, Tenths(25)) THEN "green"
    ELSE IF Lt(concentration, Tenths(35)) THEN "yellow"
    ELSE "red"

\* C28 mutant: the direction of the sentiment chain is turned round, a low
\* score being the alarming extreme.
SentimentStateInverted(sentiment_score) ==
    IF Le(sentiment_score, Tenths(25)) THEN "red"
    ELSE IF Le(sentiment_score, Tenths(75)) THEN "yellow"
    ELSE "green"

SentimentState(sentiment_score) ==
    IF Le(sentiment_score, Tenths(25)) THEN "green"
    ELSE IF Le(sentiment_score, Tenths(75)) THEN "yellow"
    ELSE "red"

\* The chain that classifies indicator `name`.
Classify(name, value) ==
    CASE name = "cape" -> CapeState(value)
      [] name = "pe_ratio" -> PeState(value)
      [] name = "buffett" -> BuffettState(value)
      [] name = "margin_debt" -> MarginDebtState(value)
      [] name = "concentration" -> ConcentrationState(value)
      [] name = "sentiment" -> SentimentState(value)

\* The two cut points each chain tests, in tenths.
Cuts(name) ==
    CASE name = "cape" -> <<Tenths(20), Tenths(30)>>
      [] name = "pe_ratio" -> <<Tenths(18), Tenths(24)>>
      [] name = "buffett" -> <<Tenths(120), Tenths(150)>>
      [] name = "margin_debt" -> <<Tenths(0), Tenths(10)>>
      [] name = "concentration" -> <<Tenths(25), Tenths(35)>>
      [] name = "sentiment" -> <<Tenths(25), Tenths(75)>>

\* The finite readings tried for an indicator: around both cut points.
FiniteReadings(name) ==
    {Cuts(name)[1] + d : d \in (0 - Margin)..Margin}
        \cup {Cuts(name)[2] + d : d \in (0 - Margin)..Margin}

Readings(name) == FiniteReadings(name) \cup NonFinite

(***************************************************************************)
(* The six providers of DataManager                                        *)
(* Each returns {} from its except branch and otherwise a record, of which *)
(* the model keeps 'current' and 'state' (data, percentile, price, source  *)
(* and last_updated play no part in scoring).                              *)
(***************************************************************************)
\* get_shiller_cape: current_cape is the last point of the simulated series.
ShillerCape(current_cape) ==
    [current |-> current_cape, state |-> CapeState(current_cape)]

\* get_sp500_pe: current_pe = 22.5
current_pe == 225
Sp500Pe == [current |-> current_pe, state |-> PeState(current_pe)]

\* get_buffett_indicator: ratio = market_cap / gdp * 100
market_cap == 45000
gdp == 25000
ratio == (market_cap * Tenths(100)) \div gdp
BuffettIndicator == [current |-> ratio, state |-> BuffettState(ratio)]

\* get_margin_debt: margin_debt_yoy = 8.5
margin_debt_yoy == 85
MarginDebt == [current |-> margin_debt_yoy, state |-> MarginDebtState(margin_debt_yoy)]

\* get_concentration: concentration = 32.5
concentration == 325
Concentration == [current |-> concentration, state |-> ConcentrationState(concentration)]

\* get_sentiment: put_call_ratio = 0.8 and hy_spread = 350 give the two fixed
\* terms (0.8 - 0.5) * 20 = 6.0 and (400 - 350) / 4 = 12.5; vix_percentile is
\* the 75th percentile of the VIX closes.
SentimentScore(vix_percentile) ==
    IF vix_percentile = NaN THEN NaN
    ELSE Clip(Tenths(50) + (Tenths(25) - vix_percentile \div 4) + 60 + 125,
              Tenths(0), Tenths(100))

Sentiment(vix_percentile) ==
    [current |-> SentimentScore(vix_percentile),
     state |-> SentimentState(SentimentScore(vix_percentile))]

\* cape_values[-1] of get_shiller_cape, by the number n of month ends between
\* 1990-01-01 and the day of the run (n-th entry, run dates 1990-02 to
\* 2040-12): 15 + the n-th draw of np.random.normal(0, 5, n) after
\* np.random.seed(42), clipped to [10, 40], plus the last point of the trend
\* (5 for n > 1) plus 5 * sin(2 * pi * (n - 1) / 120).  Kept in tenths, rounded
\* down, which leaves the state of the `<` chain as the code gives it.
cape_values_last ==
    <<
       174, 195, 237, 283, 198, 201, 294, 256, 196, 249, 201, 203, 241, 181, 183, 207, 187,
       254, 195, 191, 316, 233, 249, 196, 220, 253, 198, 268, 219, 235, 219, 342, 249, 199,
       290, 198, 257, 196, 195, 254, 280, 250, 234, 223, 187, 199, 210, 284, 246, 177, 241,
       203, 186, 248, 267, 259, 168, 192, 221, 251, 176, 188, 144, 142, 230, 254, 180, 232,
       197, 145, 193, 249, 168, 246, 116, 205, 167, 146, 164, 108, 145, 173, 228, 127, 112,
       126, 196, 167, 123, 175, 154, 198, 115, 134, 131, 101, 167, 166, 154, 143, 106, 137,
       142, 121, 154, 184, 260, 177, 183, 169, 125, 175, 182, 305, 174, 202, 187, 142, 251,
       234, 239, 157, 275, 157, 239, 322, 165, 189, 225, 197, 174, 230, 179, 255, 187, 312,
       197, 222, 281, 191, 254, 309, 195, 255, 260, 287, 198, 199, 275, 264, 262, 267, 215,
       260, 263, 212, 340, 270, 195, 277, 194, 281, 298, 197, 285, 255, 274, 326, 217, 189,
       180, 181, 216, 234, 229, 254, 211, 280, 191, 338, 231, 154, 144, 216, 178, 222, 208,
       178, 137, 127, 152, 215, 181, 118, 175, 183, 118, 168, 162, 108, 174, 183, 208, 206,
       102, 104, 176, 176, 176, 342, 178, 206, 197, 183, 135, 189, 113, 141, 130, 159, 272,
       108, 193, 111, 139, 219, 169, 118, 134, 206, 138, 188, 181, 149, 291, 218, 139, 201,
       161, 240, 160, 196, 230, 251, 160, 196, 191, 185, 308, 242, 174, 273, 335, 283, 183,
       211, 300, 203, 262, 280, 196, 241, 195, 196, 234, 198, 330, 199, 227, 256, 322, 199,
       307, 249, 199, 271, 257, 216, 249, 225, 248, 275, 319, 188, 343, 185, 225, 260, 243,
       196, 214, 198, 190, 260, 233, 178, 255, 223, 245, 234, 158, 169, 232, 222, 188, 192,
       248, 152, 207, 167, 164, 227, 211, 209, 231, 165, 196, 145, 175, 151, 161, 185, 113,
       257, 102, 101, 208, 190, 181, 181, 149, 105, 154, 116, 199, 144, 111, 137, 174, 127,
       115, 170, 171, 135, 139, 176, 116, 118, 134, 162, 190, 251, 222, 174, 183, 137, 188,
       177, 210, 156, 225, 279, 199, 227, 244, 192, 226, 218, 225, 184, 226, 252, 301, 279,
       341, 196, 280, 248, 349, 201, 201, 214, 195, 220, 209, 255, 265, 343, 297, 221, 205,
       274, 199, 340, 307, 224, 197, 314, 239, 306, 193, 211, 240, 241, 214, 266, 183, 224,
       235, 252, 260, 172, 170, 281, 232, 175, 287, 213, 264, 205, 303, 285, 182, 240, 221,
       255, 136, 216, 232, 127, 125, 122, 157, 204, 241, 168, 244, 111, 109, 155, 175, 153,
       104, 148, 102, 185, 169, 103, 124, 100, 146, 197, 100, 175, 124, 112, 147, 103, 126,
       105, 254, 159, 124, 171, 157, 153, 197, 206, 144, 143, 161, 127, 129, 250, 266, 174,
       218, 207, 348, 253, 193, 154, 155, 217, 172, 162, 183, 167, 304, 266, 224, 301, 233,
       188, 309, 262, 187, 229, 196, 191, 289, 340, 195, 274, 215, 223, 219, 206, 252, 208,
       263, 247, 237, 204, 220, 286, 272, 197, 250, 282, 193, 269, 207, 267, 198, 185, 183,
       233, 242, 182, 256, 172, 217, 167, 182, 215, 167, 188, 255, 173, 241, 147, 221, 264,
       139, 147, 213, 171, 198, 147, 179, 164, 228, 181, 183, 144, 138, 139, 179, 137, 171,
       259, 197, 137, 212, 131, 101, 100, 100, 132, 150, 233, 166, 139, 192, 101, 164, 191,
       104, 212, 173, 137, 191, 274, 171, 177, 143, 126, 212, 129, 178, 153, 203, 198, 236,
       161, 176, 143, 172, 216, 237, 156, 248, 275, 231, 306, 176, 167, 170, 297, 257, 224
    >>

\* The last CAPE point get_shiller_cape can read, over the days it may run.
CapeSeriesLast == {cape_values_last[n] : n \in 1..Len(cape_values_last)}

\* The VIX percentiles tried: those that put the sentiment score on each
\* finite reading of interest, one high enough to be clipped to 0, and NaN
\* (a VIX series with a missing close).
VixPercentiles ==
    {4 * (935 - s) : s \in FiniteReadings("sentiment")} \cup {4 * 1035, NaN}

(***************************************************************************)
(* Composite score (DataManager.calculate_composite_score)                 *)
(***************************************************************************)
GCD[a \in Int, b \in Nat] == IF b = 0 THEN a ELSE GCD[b, a % b]

\* The fraction n/d (d > 0) in lowest terms.
Lowest[n \in Int, d \in Nat] == [num |-> n \div GCD[n, d], den |-> d \div GCD[n, d]]
Rat(n, d) == Lowest[n, d]
\* r <= k, r >= k, r < k, r > k for a fraction r and an integer k.
RLe(r, k) == r.num <= k * r.den
RGe(r, k) == r.num >= k * r.den
RLt(r, k) == r.num < k * r.den
RGt(r, k) == r.num > k * r.den

\* C8 mutant: sentiment is averaged with the valuation indicators.
valuation_metrics_six ==
    <<"cape", "pe_ratio", "buffett", "margin_debt", "concentration", "sentiment">>

valuation_metrics == <<"cape", "pe_ratio", "buffett", "margin_debt", "concentration">>

\* C9 mutant: the emptiness test is dropped and a failed provider's {} is scored.
HasKey(m, metric) == metric \in DOMAIN m

\* `metric in metrics and metrics[metric]`
Present(m, metric) == metric \in DOMAIN m /\ Truthy(m[metric])

\* C6 mutant: the proxies are taken as the band edges 0 / 50 / 100.
ProxyEdges(state) ==
    IF state = "green" THEN 0 ELSE IF state = "yellow" THEN 50 ELSE 100

\* The numeric proxy of a traffic-light state.
Proxy(state) ==
    IF state = "green" THEN 25 ELSE IF state = "yellow" THEN 50 ELSE 75

\* The list valuation_scores after the loop has seen the first i metrics.
RECURSIVE ScoresUpTo(_, _)
ScoresUpTo(m, i) ==
    IF i = 0 THEN << >>
    ELSE LET metric == valuation_metrics[i]
             before == ScoresUpTo(m, i - 1)
         IN  IF Present(m, metric)
             THEN Append(before, Proxy(Get(m[metric], "state", "yellow")))
             ELSE before

ValuationScores(m) == ScoresUpTo(m, Len(valuation_metrics))

RECURSIVE SumSeq(_)
SumSeq(s) == IF s = << >> THEN 0 ELSE Head(s) + SumSeq(Tail(s))

\* np.mean of a non-empty list
Mean(s) == Rat(SumSeq(s), Len(s))

\* C7 mutant: an empty list scores 0 instead of the neutral 50.
AvgValuationZero(valuation_scores) ==
    IF valuation_scores # << >> THEN Mean(valuation_scores) ELSE Rat(0, 1)

\* np.mean(valuation_scores) if valuation_scores else 50
AvgValuation(valuation_scores) ==
    IF valuation_scores # << >> THEN Mean(valuation_scores) ELSE Rat(50, 1)

\* trend_score = 60
trend_score == 60

\* C24 mutant: the action is the cell of the displayed matrix.
DecideActionMatrix(avg_valuation, trend) ==
    IF RLe(avg_valuation, 30) THEN "Accumulate"
    ELSE IF RGe(avg_valuation, 70) THEN (IF trend >= 60 THEN "Wait" ELSE "Trim")
    ELSE "Neutral"

\* The action guidance chain, on the locals avg_valuation and trend_score.
DecideAction(avg_valuation, trend) ==
    IF RLe(avg_valuation, 30) /\ trend >= 60 THEN "Accumulate"
    ELSE IF RGe(avg_valuation, 70) /\ trend <= 40 THEN "Trim"
    ELSE "Neutral"

\* The dict calculate_composite_score returns (last_calculated left out); the
\* local avg_valuation is assigned once and read by both fields.
CompositeScore(m) ==
    LET Returned[avg_valuation \in [num : Int, den : Nat]] ==
            [valuation_score |-> avg_valuation,
             trend_score |-> trend_score,
             action |-> DecideAction(avg_valuation, trend_score)]
    IN  Returned[AvgValuation(ValuationScores(m))]

(***************************************************************************)
(* Demo data (demo_data.py)                                                *)
(***************************************************************************)
\* C5 mutant: the Buffett figure is recomputed from the record's own
\* market_cap / gdp (45000 / 25000 = 180.0) and the state literal is kept.
GetDemoMetricsRecomputed ==
    [cape |-> [current |-> 285, state |-> "yellow"],
     pe_ratio |-> [current |-> 225, state |-> "yellow"],
     buffett |-> [current |-> 1800, state |-> "yellow"],
     margin_debt |-> [current |-> 85, state |-> "yellow"],
     concentration |-> [current |-> 325, state |-> "yellow"],
     sentiment |-> [current |-> 450, state |-> "yellow"]]

\* get_demo_metrics: 28.5, 22.5, 135.2, 8.5, 32.5 and 45.0, all 'yellow'.
GetDemoMetrics ==
    [cape |-> [current |-> 285, state |-> "yellow"],
     pe_ratio |-> [current |-> 225, state |-> "yellow"],
     buffett |-> [current |-> 1352, state |-> "yellow"],
     margin_debt |-> [current |-> 85, state |-> "yellow"],
     concentration |-> [current |-> 325, state |-> "yellow"],
     sentiment |-> [current |-> 450, state |-> "yellow"]]

\* get_demo_composite_score
GetDemoCompositeScore ==
    [valuation_score |-> Rat(55, 1), trend_score |-> 60, action |-> "Neutral"]

(***************************************************************************)
(* The signals view (app.py, show_signals_dashboard)                       *)
(***************************************************************************)
\* The view's own copy of the scoring loop.
RECURSIVE SignalScoresUpTo(_, _)
SignalScoresUpTo(m, i) ==
    IF i = 0 THEN << >>
    ELSE LET metric == valuation_metrics[i]
             before == SignalScoresUpTo(m, i - 1)
         IN  IF Present(m, metric)
             THEN Append(before, Proxy(Get(m[metric], "state", "yellow")))
             ELSE before

\* matrix_data, column by column: Trend, Undervalued, Fair Value, Overvalued.
matrix_data ==
    << <<"Bearish", "Neutral", "Bullish">>,
       <<"Accumulate", "Accumulate", "Accumulate">>,
       <<"Neutral", "Neutral", "Neutral">>,
       <<"Trim", "Trim", "Wait">> >>

\* matrix_data.iloc[row, col], both counted from 0.
Iloc(row, col) == matrix_data[col + 1][row + 1]

ValuationCol(valuation_score) ==
    IF RLe(valuation_score, 30) THEN "Undervalued"
    ELSE IF RGe(valuation_score, 70) THEN "Overvalued"
    ELSE "Fair Value"

TrendRow(trend) == IF trend <= 40 THEN 0 ELSE IF trend >= 60 THEN 2 ELSE 1

\* 0 if valuation_col == 'Undervalued' else 1 if valuation_col == 'Fair Value' else 2
ColIndex(valuation_col) ==
    IF valuation_col = "Undervalued" THEN 0
    ELSE IF valuation_col = "Fair Value" THEN 1
    ELSE 2

\* What the view shows for the metrics m and the composite score c.
SignalsView(m, c) ==
    LET valuation_scores == SignalScoresUpTo(m, Len(valuation_metrics))
        shown == valuation_scores # << >>
        valuation_score == Get(c, "valuation_score", Rat(50, 1))
        trend == Get(c, "trend_score", 50)
        valuation_col == ValuationCol(valuation_score)
        trend_row == TrendRow(trend)
    IN  [gauge_shown |-> shown,
         gauge_value |-> IF shown THEN Mean(valuation_scores) ELSE Unset,
         gauge_color |->
            IF ~shown THEN "none"
            ELSE IF RGt(Mean(valuation_scores), 70) THEN "red"
            ELSE IF RLt(Mean(valuation_scores), 30) THEN "green"
            ELSE "yellow",
         \* for i, metric in enumerate(valuation_metrics): if i < len(valuation_scores)
         individual |->
            [i \in 1..Len(valuation_scores) |->
                [label |-> valuation_metrics[i], score |-> valuation_scores[i]]],
         trend_color |->
            IF trend > 60 THEN "green" ELSE IF trend < 40 THEN "red" ELSE "yellow",
         valuation_col |-> valuation_col,
         trend_row |-> trend_row,
         \* the cell drawn highlighted: row trend_row, action matrix_data.iloc[i, j+1]
         highlighted |-> Iloc(trend_row, ColIndex(valuation_col) + 1),
         \* "Recommended Action"
         current_action |-> Iloc(trend_row, ColIndex(valuation_col))]

\* ui.create_loading_spinner returns None (and names `time`, which
\* ui_components never imports), so `with ui.create_loading_spinner(...)`
\* raises before its body runs.
SpinnerRaises == TRUE

Views == {"overview", "asset", "detail", "signals"}

(***************************************************************************)
(* The asset browser: technical indicators of a price series               *)
(***************************************************************************)
\* A price series is the sequence of its closes, oldest first; a close is a
\* positive whole number (a price in ten-thousandths of a dollar).  A figure
\* that pandas leaves NaN is NotANumber, a division of a positive number by
\* zero is Infinite, and a metric the view does not render is Omitted.
NotANumber == [nan |-> TRUE]
Infinite == [inf |-> TRUE]
Omitted == [shown |-> FALSE]
IsNumber(r) == "num" \in DOMAIN r

\* The rows a rolling window ending at the last row covers.
Trailing(s, window) ==
    SubSeq(s, IF Len(s) > window THEN Len(s) - window + 1 ELSE 1, Len(s))

\* The sum of the rows lo..hi of a series.
RECURSIVE SumRows(_, _, _)
SumRows(s, lo, hi) ==
    IF lo > hi THEN 0
    ELSE IF lo = hi THEN s[lo]
    ELSE SumRows(s, lo, (lo + hi) \div 2) + SumRows(s, (lo + hi) \div 2 + 1, hi)

\* Series.rolling(window).mean().iloc[-1]: NaN until the window is full.
RollingMean(s, window) ==
    IF Len(s) >= window
    THEN Rat(SumRows(s, Len(s) - window + 1, Len(s)), window)
    ELSE NotANumber

\* C19 mutant: the peak is the maximum of the whole series.
ExpandingMax(s, window) ==
    CHOOSE m \in {s[i] : i \in 1..Len(s)} : \A i \in 1..Len(s) : s[i] <= m

\* Series.rolling(window, min_periods=1).max().iloc[-1]
RollingMax(s, window) ==
    LET rows == Trailing(s, window)
    IN CHOOSE m \in {rows[i] : i \in 1..Len(rows)} : \A i \in 1..Len(rows) : rows[i] <= m

\* Series.diff(): the first row has no predecessor and is NaN.
Diff(s) == [i \in 1..Len(s) |-> IF i = 1 THEN NaN ELSE s[i] - s[i - 1]]

\* delta.where(delta > 0, 0): a row that is not > 0, NaN included, becomes 0.
Gain(delta) == [i \in 1..Len(delta) |-> IF Lt(0, delta[i]) THEN delta[i] ELSE 0]

\* -delta.where(delta < 0, 0)
Loss(delta) == [i \in 1..Len(delta) |-> 0 - (IF Lt(delta[i], 0) THEN delta[i] ELSE 0)]

\* C18 mutant: a zero average loss leaves the relative strength undefined.
RelativeStrengthGuarded(gain, loss) ==
    IF loss.num = 0 THEN NotANumber
    ELSE Rat(gain.num * loss.den, gain.den * loss.num)

\* rs = gain / loss on floats: x/0 is infinite for x > 0 and NaN for x = 0.
RelativeStrength(gain, loss) ==
    IF loss.num = 0 THEN (IF gain.num = 0 THEN NotANumber ELSE Infinite)
    ELSE Rat(gain.num * loss.den, gain.den * loss.num)

\* rsi = 100 - (100 / (1 + rs)); 100 / infinity is 0.
RsiOf(rs) ==
    IF "nan" \in DOMAIN rs THEN NotANumber
    ELSE IF "inf" \in DOMAIN rs THEN Rat(100, 1)
    ELSE Rat(100 * rs.num, rs.den + rs.num)

\* "Oversold" if current_rsi < 30 else "Overbought" if current_rsi > 70 else
\* "Neutral"; both comparisons are False on NaN.
RsiLabel(current_rsi) ==
    IF IsNumber(current_rsi) /\ RLt(current_rsi, 30) THEN "Oversold"
    ELSE IF IsNumber(current_rsi) /\ RGt(current_rsi, 70) THEN "Overbought"
    ELSE "Neutral"

\* The "Current Price" metric; iloc[-2] raises IndexError on a single row.
CurrentPrice(closes) ==
    [shown |-> TRUE,
     value |-> closes[Len(closes)],
     delta |-> Rat((closes[Len(closes)] - closes[Len(closes) - 1]) * 100,
                   closes[Len(closes) - 1])]

\* The "50-Day MA" metric.
MovingAverage(closes) ==
    IF Len(closes) >= 200
    THEN [shown |-> TRUE,
          value |-> RollingMean(closes, 50),
          sma_200 |-> RollingMean(closes, 200)]
    ELSE Omitted

\* The "RSI(14)" metric.
Rsi(closes) ==
    IF Len(closes) >= 14
    THEN LET delta == Diff(closes)
             gain == RollingMean(Gain(delta), 14)
             loss == RollingMean(Loss(delta), 14)
             current_rsi == RsiOf(RelativeStrength(gain, loss))
         IN [shown |-> TRUE, value |-> current_rsi, label |-> RsiLabel(current_rsi)]
    ELSE Omitted

\* The "Current Drawdown" metric.
Drawdown(closes) ==
    IF Len(closes) >= 252
    THEN LET peak == RollingMax(closes, 252)
         IN [shown |-> TRUE, value |-> Rat((closes[Len(closes)] - peak) * 100, peak)]
    ELSE Omitted

\* The "20-Day Volatility" metric.  pct_change() leaves the first row NaN and
\* rolling(20).std() is NaN unless its 20 rows all hold a return; the size of
\* the figure itself is not modelled, only whether it is a number.
Volatility(closes) ==
    IF Len(closes) >= 20
    THEN LET valid == Len(Trailing(closes, 20)) - (IF Len(closes) <= 20 THEN 1 ELSE 0)
         IN [shown |-> TRUE, valid_returns |-> valid, defined |-> valid >= 20]
    ELSE Omitted

\* ui.create_trend_chart(asset_data, 'Date', 'Close', ..., show_ma=True) on a
\* series without gaps.
TrendChart(closes) ==
    IF Len(closes) = 0 THEN "No data available"
    ELSE IF Len(closes) < 50 THEN "Insufficient data for trend analysis"
    ELSE IF Len(closes) >= 200 THEN "price with SMA_50 and SMA_200"
    ELSE "price"

\* What show_asset_browser puts on the page for the loaded asset_data.  On a
\* single row the IndexError of the price change ends the view before any
\* later metric is rendered.
AssetView(closes) ==
    IF Len(closes) < 2
    THEN [raised |-> "IndexError", chart |-> TrendChart(closes),
          current_price |-> Omitted, moving_average |-> Omitted, rsi |-> Omitted,
          drawdown |-> Omitted, volatility |-> Omitted]
    ELSE [raised |-> "none", chart |-> TrendChart(closes),
          current_price |-> CurrentPrice(closes),
          moving_average |-> MovingAverage(closes),
          rsi |-> Rsi(closes),
          drawdown |-> Drawdown(closes),
          volatility |-> Volatility(closes)]

\* The shapes tried, each a series of n positive closes.
Rising(n) == [i \in 1..n |-> 100 + i]
Falling(n) == [i \in 1..n |-> 400 - i]
Flat(n) == [i \in 1..n |-> 100]
Zigzag(n) == [i \in 1..n |-> 100 + 10 * (i % 2)]
LatePeak(n) == [i \in 1..n |-> IF i <= n - 5 THEN 400 + i ELSE 400 + (n - 5) - 2 * (i - (n - 5))]
OldPeak(n) == [i \in 1..n |-> IF i = 1 THEN 500 ELSE 100 + (IF i = n THEN 1 ELSE 0)]

\* The 'Close' column of generate_demo_stock_data(selected_symbol, 365): one
\* row per day from 365 days ago to today, both ends included (366 rows), a
\* walk from the base price 100 (no symbol of the asset browser contains
\* "SPY") along np.random.normal(0.0005, 0.015, 366) after np.random.seed(42)
\* plus trend and cycle.  Each close is in ten-thousandths of a dollar,
\* rounded to the nearest.
demo_closes ==
    <<
       1000000, 1000418, 1014605, 1044276, 1049247, 1056129, 1093580, 1120783, 1129507,
       1156937, 1168923, 1182159, 1209065, 1198265, 1191480, 1205809, 1212222, 1242621,
       1250571, 1248438, 1299295, 1318079, 1341509, 1333660, 1341614, 1360755, 1352171,
       1372241, 1369992, 1371487, 1363927, 1403910, 1402977, 1377288, 1388224, 1354052,
       1347275, 1294349, 1253632, 1240960, 1236772, 1220541, 1197949, 1171355, 1123811,
       1090381, 1061808, 1058000, 1042937, 995391, 981618, 958218, 931968, 925381, 925739,
       925935, 902895, 889042, 885456, 892034, 880868, 875423, 859649, 844713, 857171, 878495,
       883228, 903890, 917958, 919945, 937289, 972873, 988125, 1028489, 1006975, 1038723,
       1060682, 1077435, 1101037, 1090870, 1109564, 1137795, 1185259, 1198352, 1205284,
       1216499, 1252167, 1276120, 1282150, 1306158, 1320175, 1349178, 1342438, 1340648,
       1334907, 1305077, 1307772, 1307231, 1299182, 1284126, 1244253, 1222135, 1199974,
       1168273, 1147192, 1134979, 1147099, 1129062, 1112106, 1089482, 1037018, 1016566, 998094,
       1016379, 995158, 982570, 966166, 934727, 937955, 937066, 938218, 917039, 929791, 905348,
       910304, 938980, 925627, 920198, 925808, 924867, 911133, 921370, 917662, 936570, 937667,
       974735, 980291, 993638, 1024908, 1026384, 1050772, 1093017, 1089231, 1114577, 1141386,
       1177162, 1177555, 1175405, 1204471, 1228696, 1250842, 1273278, 1274416, 1290764,
       1306129, 1299452, 1340563, 1352327, 1327722, 1337733, 1312475, 1319878, 1332255,
       1302864, 1306841, 1298043, 1295467, 1312172, 1285510, 1248420, 1208950, 1171412,
       1147616, 1131333, 1114244, 1106892, 1086563, 1090777, 1067790, 1094161, 1088082,
       1059272, 1029378, 1025949, 1013415, 1017107, 1019045, 1014610, 1000417, 978390, 974477,
       991547, 1001279, 991058, 1003817, 1021643, 1021960, 1039679, 1057587, 1057981, 1083247,
       1113305, 1153626, 1195415, 1195416, 1203365, 1237413, 1271975, 1306840, 1407138,
       1444585, 1493703, 1538568, 1575657, 1588388, 1624201, 1620660, 1627182, 1624565,
       1632602, 1692120, 1644291, 1657535, 1610488, 1589269, 1602621, 1588648, 1544967,
       1508529, 1502415, 1462685, 1443198, 1418961, 1379259, 1397762, 1384371, 1315686,
       1294123, 1256769, 1249598, 1212429, 1189688, 1179620, 1177395, 1140241, 1120735,
       1100984, 1080510, 1101561, 1102608, 1078235, 1091767, 1127365, 1147943, 1127221,
       1126555, 1157592, 1157279, 1178925, 1208701, 1210147, 1228937, 1190799, 1194630,
       1213286, 1214892, 1269527, 1268616, 1286611, 1315686, 1370828, 1368381, 1418291,
       1444204, 1447546, 1480443, 1506187, 1512022, 1530587, 1536252, 1550612, 1574914,
       1618347, 1591219, 1641831, 1590192, 1580013, 1584431, 1578649, 1548726, 1526451,
       1495644, 1461216, 1457306, 1441063, 1400997, 1394493, 1374877, 1365490, 1352212,
       1309545, 1273832, 1264642, 1253725, 1232060, 1214553, 1219850, 1192578, 1188029,
       1172034, 1157977, 1169037, 1177601, 1188293, 1210196, 1211597, 1227426, 1227614,
       1241859, 1250134, 1264970, 1291588, 1293439, 1353654, 1355547, 1354789, 1403594,
       1447593, 1490255, 1534932, 1566581, 1578165, 1612637, 1629091, 1685210, 1713671,
       1723616, 1744790, 1783275, 1794003, 1795102, 1821947, 1846040, 1846242, 1843922,
       1857451, 1820584, 1781930, 1758980, 1746214, 1743951, 1768949, 1774820, 1750698,
       1727932, 1677567, 1651347, 1617062, 1596848, 1548181, 1531435, 1537620, 1505743,
       1486132, 1473577, 1437660
    >>

\* The series the fallback of the asset browser can load: the seed makes it
\* the same on every run and for every symbol.
GenerateDemoStockData == {demo_closes}

ShowAssetBrowser ==
    /\ pc = "render"
    /\ caller = "asset"
    /\ view' = AssetView(input.asset_data)
    /\ pc' = "done"
    /\ UNCHANGED <<caller, input, metrics, composite>>

(***************************************************************************)
(* The market overview (app.py, show_market_overview)                      *)
(***************************************************************************)
\* The number of entries of the dict m that are non-empty, carry a 'state'
\* and hold the state s: the tally of create_summary_strip.
StateCount(m, s) ==
    Cardinality({k \in DOMAIN m : Truthy(m[k]) /\ "state" \in DOMAIN m[k] /\ m[k].state = s})

\* C30 mutant: the green tally is looked at before the red one.
OverallStateGreenFirst(states) ==
    IF states.green >= 3 THEN "Undervalued"
    ELSE IF states.red >= 3 THEN "Overvalued"
    ELSE "Mixed"

\* if states['red'] >= 3 ... elif states['green'] >= 3 ... else
OverallState(states) ==
    IF states.red >= 3 THEN "Overvalued"
    ELSE IF states.green >= 3 THEN "Undervalued"
    ELSE "Mixed"

\* What ui.create_summary_strip(metrics, composite_score) shows.
SummaryStrip(m, c) ==
    LET states == [green |-> StateCount(m, "green"),
                   yellow |-> StateCount(m, "yellow"),
                   red |-> StateCount(m, "red")]
    IN  [states |-> states,
         overall_state |-> OverallState(states),
         action |-> Get(c, "action", "Neutral"),
         valuation_score |-> Get(c, "valuation_score", Rat(50, 1)),
         trend_score |-> Get(c, "trend_score", 50)]

\* The "Market Health" message of the overview.
HealthStatus(c) ==
    IF ~Truthy(c) THEN "none"
    ELSE IF RLe(Get(c, "valuation_score", Rat(50, 1)), 30) THEN "undervalued"
    ELSE IF RGe(Get(c, "valuation_score", Rat(50, 1)), 70) THEN "overvalued"
    ELSE "fairly valued"

\* What show_market_overview puts on the page for the metrics m and the
\* composite score c: the tiles of the metric grid, the summary strip and the
\* health status.
MarketOverview(m, c) ==
    [tiles |-> {k \in DOMAIN m : Truthy(m[k])},
     summary |-> SummaryStrip(m, c),
     health |-> HealthStatus(c)]

\* The body of show_market_overview after the data is loaded.
ShowMarketOverview ==
    /\ pc = "render"
    /\ caller = "overview"
    /\ view' = MarketOverview(metrics, composite)
    /\ pc' = "done"
    /\ UNCHANGED <<caller, input, metrics, composite>>

(***************************************************************************)
(* The valuation detail (app.py, show_valuation_detail)                    *)
(***************************************************************************)
\* metric_names, in the order of the tabs.
metric_names ==
    << <<"cape", "Shiller CAPE">>,
       <<"pe_ratio", "S&P 500 P/E Ratio">>,
       <<"buffett", "Buffett Indicator">>,
       <<"margin_debt", "Margin Debt">>,
       <<"concentration", "Market Concentration">>,
       <<"sentiment", "Market Sentiment">> >>

\* str.title() and str.upper() on the words the view applies them to.
Title(word) ==
    CASE word = "green" -> "Green"
      [] word = "yellow" -> "Yellow"
      [] word = "red" -> "Red"
      [] OTHER -> word

Upper(word) ==
    CASE word = "green" -> "GREEN"
      [] word = "yellow" -> "YELLOW"
      [] word = "red" -> "RED"
      [] OTHER -> word

\* What one tab holds: nothing but its title when the metric is missing or
\* {}, else the current value, the status line, the traffic light and the
\* thresholds text of its key (the Source and Last Updated lines and the
\* historical chart read fields the model does not keep).
DetailTab(m, metric_key, metric_name) ==
    IF Present(m, metric_key)
    THEN [title |-> metric_name,
          filled |-> TRUE,
          current |-> Get(m[metric_key], "current", 0),
          status |-> Title(Get(m[metric_key], "state", "Unknown")),
          light |-> Upper(Get(m[metric_key], "state", "yellow")),
          thresholds |-> metric_key]
    ELSE [title |-> metric_name, filled |-> FALSE]

\* What show_valuation_detail puts on the page for the metrics m: one tab per
\* entry of metric_names.
ValuationDetail(m) ==
    [i \in 1..Len(metric_names) |-> DetailTab(m, metric_names[i][1], metric_names[i][2])]

\* The body of show_valuation_detail after the data is loaded.
ShowValuationDetail ==
    /\ pc = "render"
    /\ caller = "detail"
    /\ view' = ValuationDetail(metrics)
    /\ pc' = "done"
    /\ UNCHANGED <<caller, input, metrics, composite>>

(***************************************************************************)
(* Actions                                                                 *)
(***************************************************************************)
\* test_app.test_basic_functionality: get_all_metrics, then calculate_composite_score.
TestBasicFunctionality ==
    /\ pc = "start"
    /\ pc' = "cape"
    /\ caller' = "test"
    /\ metrics' = EmptyDict
    /\ UNCHANGED <<input, composite, view>>

\* The tabs of main(), in the order it runs their views.
Tabs == <<"overview", "asset", "detail", "signals">>

\* main() runs show_market_overview, show_asset_browser, show_valuation_detail
\* and show_signals_dashboard one after the other: the first view is entered
\* from the start, each later one when the view before it has returned.  The
\* locals of a view are unassigned when it is entered; what the earlier view
\* has drawn stays on the page.
EnterView ==
    /\ \E i \in 1..Len(Tabs) :
          /\ IF i = 1 THEN pc = "start" ELSE pc = "done" /\ caller = Tabs[i - 1]
          /\ caller' = Tabs[i]
    /\ pc' = "spinner"
    /\ input' = Unset
    /\ metrics' = Unset
    /\ composite' = Unset
    /\ UNCHANGED view

\* try: with ui.create_loading_spinner(...): ... except Exception: fall back
LoadingSpinner ==
    /\ pc = "spinner"
    /\ IF SpinnerRaises
       THEN pc' = "fallback" /\ UNCHANGED metrics
       ELSE pc' = "cape" /\ metrics' = EmptyDict
    /\ UNCHANGED <<caller, input, composite, view>>

\* except Exception: metrics = get_demo_metrics(); composite_score =
\* get_demo_composite_score(); in the asset browser asset_data =
\* generate_demo_stock_data(selected_symbol, 365).
DemoFallback ==
    /\ pc = "fallback"
    /\ IF caller = "asset"
       THEN /\ \E closes \in GenerateDemoStockData : input' = [asset_data |-> closes]
            /\ UNCHANGED <<metrics, composite>>
       ELSE /\ metrics' = GetDemoMetrics
            /\ composite' = IF caller = "detail" THEN composite ELSE GetDemoCompositeScore
            /\ UNCHANGED input
    /\ pc' = "render"
    /\ UNCHANGED <<caller, view>>

\* One provider call of get_all_metrics: the entry for `name` becomes rec.
Provide(name, rec, next) ==
    /\ pc = name
    /\ metrics' = metrics @@ (name :> rec)
    /\ pc' = next
    /\ UNCHANGED <<caller, input, composite, view>>

GetShillerCape ==
    \/ Provide("cape", EmptyDict, "pe_ratio")
    \/ \E current_cape \in CapeSeriesLast :
          Provide("cape", ShillerCape(current_cape), "pe_ratio")

GetSp500Pe ==
    \/ Provide("pe_ratio", EmptyDict, "buffett")
    \/ Provide("pe_ratio", Sp500Pe, "buffett")

GetBuffettIndicator ==
    \/ Provide("buffett", EmptyDict, "margin_debt")
    \/ Provide("buffett", BuffettIndicator, "margin_debt")

GetMarginDebt ==
    \/ Provide("margin_debt", EmptyDict, "concentration")
    \/ Provide("margin_debt", MarginDebt, "concentration")

GetConcentration ==
    \/ Provide("concentration", EmptyDict, "sentiment")
    \/ Provide("concentration", Concentration, "sentiment")

\* {} when the VIX frame is empty or anything raises.
GetSentiment ==
    LET next == IF caller = "detail" THEN "render" ELSE "score"
    IN  \/ Provide("sentiment", EmptyDict, next)
        \/ \E vix_percentile \in VixPercentiles :
              Provide("sentiment", Sentiment(vix_percentile), next)

CalculateCompositeScore ==
    /\ pc = "score"
    /\ composite' = CompositeScore(metrics)
    /\ pc' = IF caller = "test" THEN "done" ELSE "render"
    /\ UNCHANGED <<caller, input, metrics, view>>

\* The body of show_signals_dashboard after the data is loaded.
ShowSignalsDashboard ==
    /\ pc = "render"
    /\ caller = "signals"
    /\ view' = SignalsView(metrics, composite)
    /\ pc' = "done"
    /\ UNCHANGED <<caller, input, metrics, composite>>

(***************************************************************************)
(* Spec: the program's entry points                                        *)
(***************************************************************************)
Init ==
    /\ pc = "start"
    /\ caller = "none"
    /\ input = Unset
    /\ metrics = Unset
    /\ composite = Unset
    /\ view = Unset

Next ==
    \/ TestBasicFunctionality
    \/ EnterView
    \/ LoadingSpinner
    \/ DemoFallback
    \/ GetShillerCape
    \/ GetSp500Pe
    \/ GetBuffettIndicator
    \/ GetMarginDebt
    \/ GetConcentration
    \/ GetSentiment
    \/ CalculateCompositeScore
    \/ ShowMarketOverview
    \/ ShowAssetBrowser
    \/ ShowValuationDetail
    \/ ShowSignalsDashboard

Spec == Init /\ [][Next]_vars

(***************************************************************************)
(* SpecClassify: one traffic-light chain applied to a reading              *)
(***************************************************************************)
InitClassify ==
    /\ pc = "classify"
    /\ caller = "fragment"
    /\ \E name \in Names : \E value \in Readings(name) :
          input = [name |-> name, value |-> value]
    /\ metrics = EmptyDict
    /\ composite = Unset
    /\ view = Unset

\* The chain of provider input.name runs on the reading input.value and the
\* provider builds its record.
ClassifyReading ==
    /\ pc = "classify"
    /\ metrics' = (input.name :>
                      [current |-> input.value,
                       state |-> Classify(input.name, input.value)])
    /\ pc' = "classified"
    /\ UNCHANGED <<caller, input, composite, view>>

NextClassify == ClassifyReading

SpecClassify == InitClassify /\ [][NextClassify]_vars

(***************************************************************************)
(* SpecScore: calculate_composite_score applied to a metrics dict          *)
(***************************************************************************)
\* What an entry of the argument may be: {}, a record without 'state', or a
\* record with one of the three states.
ScoreEntries == {EmptyDict, [source |-> "Unknown"]} \cup {[state |-> s] : s \in States}

\* The dicts tried: any subset of the six keys, any entry under each key.
ScoreInputs == UNION {[D -> ScoreEntries] : D \in SUBSET Names}

InitScore ==
    /\ pc = "score"
    /\ caller = "test"
    /\ input = Unset
    /\ metrics \in ScoreInputs
    /\ composite = Unset
    /\ view = Unset

NextScore == CalculateCompositeScore

SpecScore == InitScore /\ [][NextScore]_vars

(***************************************************************************)
(* SpecPolicy: the action guidance and the signals view on the scores of   *)
(* the code                                                                *)
(***************************************************************************)
\* The metrics the scores are taken from: any dict get_all_metrics can return
\* (the six keys, each entry {}, a record without 'state' or a record with one
\* of the three states), and the demo metrics.
PolicyMetrics == [Names -> ScoreEntries] \cup {GetDemoMetrics}

\* The valuation score that goes with the metrics m: avg_valuation of
\* calculate_composite_score, or the valuation_score of the demo composite
\* beside the demo metrics.
PolicyValuation(m) ==
    IF m = GetDemoMetrics THEN GetDemoCompositeScore.valuation_score
    ELSE AvgValuation(ValuationScores(m))

\* The trend score the chain and the view are run with: the literal 60 that
\* calculate_composite_score assigns (get_demo_composite_score returns 60.0).
PolicyTrends == {trend_score}

InitPolicy ==
    /\ pc = "policy"
    /\ caller = "signals"
    /\ metrics \in PolicyMetrics
    /\ \E t \in PolicyTrends :
          input = [avg_valuation |-> PolicyValuation(metrics), trend_score |-> t]
    /\ composite = Unset
    /\ view = Unset

\* The action guidance chain of calculate_composite_score on the two scores,
\* and the dict it returns.
ActionGuidance ==
    /\ pc = "policy"
    /\ composite' = [valuation_score |-> input.avg_valuation,
                     trend_score |-> input.trend_score,
                     action |-> DecideAction(input.avg_valuation, input.trend_score)]
    /\ pc' = "render"
    /\ UNCHANGED <<caller, input, metrics, view>>

NextPolicy == ActionGuidance \/ ShowSignalsDashboard

SpecPolicy == InitPolicy /\ [][NextPolicy]_vars

(***************************************************************************)
(* SpecAsset: the asset browser applied to a price series                  *)
(***************************************************************************)
\* The lengths tried: one and two rows, and the lengths around every guard
\* and window of the view.
SeriesLengths ==
    {1, 2} \cup {w + d : w \in {14, 15, 20, 50, 200, 252}, d \in (0 - Margin)..Margin}

PriceSeries ==
    {Rising(n) : n \in SeriesLengths} \cup {Falling(n) : n \in SeriesLengths}
    \cup {Flat(n) : n \in SeriesLengths} \cup {Zigzag(n) : n \in SeriesLengths}
    \cup {LatePeak(n) : n \in SeriesLengths} \cup {OldPeak(n) : n \in SeriesLengths}
    \cup GenerateDemoStockData

InitAsset ==
    /\ pc = "render"
    /\ caller = "asset"
    /\ \E closes \in PriceSeries : input = [asset_data |-> closes]
    /\ metrics = Unset
    /\ composite = Unset
    /\ view = Unset

NextAsset == ShowAssetBrowser

SpecAsset == InitAsset /\ [][NextAsset]_vars

(***************************************************************************)
(* SpecLive: the overview and the signals view on loaded metrics           *)
(***************************************************************************)
\* The dict get_all_metrics returns always holds the six keys; each entry is
\* {}, a record without 'state', or a record with one of the three states.
LiveInputs == [Names -> ScoreEntries]

\* The body of `with ui.create_loading_spinner(...)` has fetched the metrics;
\* the composite score is computed and the view rendered from both.
InitLive ==
    /\ pc = "score"
    /\ caller \in {"overview", "signals"}
    /\ input = Unset
    /\ metrics \in LiveInputs
    /\ composite = Unset
    /\ view = Unset

NextLive == CalculateCompositeScore \/ ShowMarketOverview \/ ShowSignalsDashboard

SpecLive == InitLive /\ [][NextLive]_vars

(***************************************************************************)
(* Properties                                                              *)
(***************************************************************************)
\* The entry of indicator n in the metrics dict holds a reading.
HasReading(n) == n \in DOMAIN metrics /\ metrics[n] # EmptyDict

\* The number of indicators of the set S whose entry holds state s.
CountState(S, s) ==
    Cardinality({n \in S : HasReading(n) /\ "state" \in DOMAIN metrics[n]
                              /\ metrics[n].state = s})

\* The sum of the proxies 25 / 50 / 75 over the indicators of S.
ProxySum(S) ==
    25 * CountState(S, "green") + 50 * CountState(S, "yellow") + 75 * CountState(S, "red")

\* Every reading among the indicators of S carries one of the three states.
AllStated(S) ==
    \A n \in S : HasReading(n) =>
        "state" \in DOMAIN metrics[n] /\ metrics[n].state \in States

\* The fraction r is the mean of the proxies over the readings among S.
IsMeanOver(r, S) ==
    r.num * Cardinality({n \in S : HasReading(n)}) = r.den * ProxySum(S)

FiveValuation == {"cape", "pe_ratio", "buffett", "margin_debt", "concentration"}

\* The cut points of the threshold table (section 4.1), in whole units.
TableCuts ==
    [cape |-> <<20, 30>>, pe_ratio |-> <<18, 24>>, buffett |-> <<120, 150>>,
     margin_debt |-> <<0, 10>>, concentration |-> <<25, 35>>, sentiment |-> <<25, 75>>]

\* C1: for each of the six indicators and every reading, the chain leaves
\* exactly one of green / yellow / red in the record: exactly one band matches.
C1_ExactlyOneState ==
    pc = "classified" =>
        Cardinality({s \in States : metrics[input.name].state = s}) = 1

\* C1 witness: a CAPE of exactly 30.0, the edge between two bands, was classified.
C1_Witness ==
    /\ pc = "classified"
    /\ input = [name |-> "cape", value |-> Tenths(30)]
    /\ metrics["cape"].state \in States

\* C2: for cape, pe_ratio, buffett and concentration a finite reading is green
\* iff it is below the low cut, yellow iff it is at or above the low cut and
\* below the high cut, red iff it is at or above the high cut.
C2_StrictLowerBounds ==
    (pc = "classified" /\ input.name \in {"cape", "pe_ratio", "buffett", "concentration"}
        /\ IsFinite(input.value)) =>
        LET v == input.value
            low == Tenths(TableCuts[input.name][1])
            high == Tenths(TableCuts[input.name][2])
            state == metrics[input.name].state
        IN  /\ state = "green" <=> v < low
            /\ state = "yellow" <=> (low <= v /\ v < high)
            /\ state = "red" <=> v >= high

\* C2 witness: a P/E of exactly 18.0 was classified yellow.
C2_Witness ==
    /\ pc = "classified"
    /\ input = [name |-> "pe_ratio", value |-> Tenths(18)]
    /\ metrics["pe_ratio"].state = "yellow"

\* C3: a finite sentiment score <= 25 is green, a score >= 75 is red, and a
\* score strictly between 25 and 75 is yellow.
C3_SentimentBands ==
    (pc = "classified" /\ input.name = "sentiment" /\ IsFinite(input.value)) =>
        LET v == input.value
            state == metrics["sentiment"].state
        IN  /\ v <= Tenths(25) => state = "green"
            /\ v >= Tenths(75) => state = "red"
            /\ (Tenths(25) < v /\ v < Tenths(75)) => state = "yellow"

\* C4: a finite margin-debt change <= 0 is green, a change in (0, 10] is
\* yellow, and a change > 10 is red.
C4_MarginDebtBands ==
    (pc = "classified" /\ input.name = "margin_debt" /\ IsFinite(input.value)) =>
        LET v == input.value
            state == metrics["margin_debt"].state
        IN  /\ state = "green" <=> v <= Tenths(0)
            /\ state = "yellow" <=> (Tenths(0) < v /\ v <= Tenths(10))
            /\ state = "red" <=> v > Tenths(10)

\* C4 witness: a change of exactly 10.0 was classified yellow.
C4_Witness ==
    /\ pc = "classified"
    /\ input = [name |-> "margin_debt", value |-> Tenths(10)]
    /\ metrics["margin_debt"].state = "yellow"

\* C5: every non-empty record of the metrics dict, built by a provider or
\* by get_demo_metrics, carries the state its own 'current' classifies to.
C5_StateMatchesCurrent ==
    \A n \in Names : HasReading(n) =>
        metrics[n].state = Classify(n, metrics[n].current)

\* C5 witness: a view has fallen back to the demo metrics.
C5_Witness ==
    /\ pc = "render"
    /\ \A n \in Names : HasReading(n)
    /\ metrics["buffett"].current = 1352

\* C6: the valuation score is the mean of the proxies green=25, yellow=50,
\* red=75 over the valuation indicators present; all green gives exactly 25,
\* all red exactly 75, three green with two red gives 45.
C6_MeanOfProxies ==
    (pc = "done" /\ AllStated(FiveValuation) /\ \E n \in FiveValuation : HasReading(n)) =>
        LET score == composite.valuation_score
            present == Cardinality({n \in FiveValuation : HasReading(n)})
        IN  /\ IsMeanOver(score, FiveValuation)
            /\ CountState(FiveValuation, "green") = present => score = [num |-> 25, den |-> 1]
            /\ CountState(FiveValuation, "red") = present => score = [num |-> 75, den |-> 1]
            /\ (CountState(FiveValuation, "green") = 3 /\ CountState(FiveValuation, "red") = 2)
                  => score = [num |-> 45, den |-> 1]

\* C6 witness: three green and two red valuation indicators were scored.
C6_Witness ==
    /\ pc = "done"
    /\ CountState(FiveValuation, "green") = 3
    /\ CountState(FiveValuation, "red") = 2
    /\ composite.valuation_score = [num |-> 45, den |-> 1]

\* C7: when every metric entry is missing or empty, a composite record is
\* still produced and its valuation score is exactly 50.
C7_EmptyGivesFifty ==
    (pc = "done" /\ \A n \in Names : ~HasReading(n)) =>
        /\ DOMAIN composite = {"valuation_score", "trend_score", "action"}
        /\ composite.valuation_score = [num |-> 50, den |-> 1]

\* C7 witness: a dict with missing keys and empty entries only was scored.
C7_Witness ==
    /\ pc = "done"
    /\ DOMAIN metrics = {"cape", "sentiment"}
    /\ \A n \in Names : ~HasReading(n)
    /\ "valuation_score" \in DOMAIN composite

\* C8 as claimed: the valuation score is the mean of the proxies over all of
\* the six indicators that have a reading, sentiment included.
C8_SixIndicatorMean ==
    (pc = "done" /\ AllStated(Names) /\ \E n \in Names : HasReading(n)) =>
        IsMeanOver(composite.valuation_score, Names)

\* C8 amended: the valuation score is the mean over the readings among the
\* five valuation indicators cape, pe_ratio, buffett, margin_debt and
\* concentration; sentiment never contributes, so replacing the sentiment
\* entry by any other leaves the valuation score unchanged.
C8_FiveIndicatorMean ==
    pc = "done" =>
        /\ (AllStated(FiveValuation) /\ \E n \in FiveValuation : HasReading(n))
              => IsMeanOver(composite.valuation_score, FiveValuation)
        /\ \A e \in ScoreEntries :
              CompositeScore(("sentiment" :> e) @@ metrics).valuation_score
                  = composite.valuation_score

\* C8 witness: sentiment was red, every valuation indicator green, and the
\* score is 25.
C8_Witness ==
    /\ pc = "done"
    /\ CountState({"sentiment"}, "red") = 1
    /\ CountState(FiveValuation, "green") = 5
    /\ composite.valuation_score = [num |-> 25, den |-> 1]

\* C9 as claimed: whichever of the six providers fail, get_all_metrics
\* followed by calculate_composite_score runs to its end and returns a
\* composite whose valuation score is the mean over exactly the indicators,
\* of the six, that are present.
C9_SixProviderMean ==
    caller = "test" =>
        /\ pc # "done" => ENABLED Next
        /\ pc = "done" =>
              /\ DOMAIN composite = {"valuation_score", "trend_score", "action"}
              /\ (\E n \in Names : HasReading(n))
                    => IsMeanOver(composite.valuation_score, Names)

\* C9 amended: whichever of the six providers fail, get_all_metrics followed
\* by calculate_composite_score runs to its end and returns a composite whose
\* valuation score is the mean over exactly the readings present among the
\* five valuation indicators, and 50 when there is none; a sentiment reading
\* never enters the mean.
C9_PartialResults ==
    caller = "test" =>
        /\ pc # "done" => ENABLED Next
        /\ pc = "done" =>
              /\ DOMAIN composite = {"valuation_score", "trend_score", "action"}
              /\ IF \E n \in FiveValuation : HasReading(n)
                 THEN IsMeanOver(composite.valuation_score, FiveValuation)
                 ELSE composite.valuation_score = [num |-> 50, den |-> 1]

\* C9 witness: cape and margin_debt failed, the other providers answered, and
\* the composite was returned.
C9_Witness ==
    /\ pc = "done"
    /\ caller = "test"
    /\ metrics["cape"] = EmptyDict
    /\ metrics["margin_debt"] = EmptyDict
    /\ HasReading("pe_ratio") /\ HasReading("buffett") /\ HasReading("concentration")
    /\ "valuation_score" \in DOMAIN composite

\* C10: whenever the valuation score is <= 30 the action is Accumulate, for
\* every trend score: both the composite's action and the view's
\* Recommended Action.
C10_UndervaluedAccumulate ==
    /\ (pc \in {"render", "done"} /\ RLe(composite.valuation_score, 30))
          => composite.action = "Accumulate"
    /\ (pc = "done" /\ RLe(composite.valuation_score, 30))
          => view.current_action = "Accumulate"

\* C11: whenever the valuation score is >= 70 and the trend score is >= 60
\* the action is Wait: both the composite's action and the view's
\* Recommended Action.
C11_OvervaluedBullishWait ==
    /\ (pc \in {"render", "done"} /\ RGe(composite.valuation_score, 70)
            /\ composite.trend_score >= 60)
          => composite.action = "Wait"
    /\ (pc = "done" /\ RGe(composite.valuation_score, 70)
            /\ composite.trend_score >= 60)
          => view.current_action = "Wait"

\* C13: whenever the valuation score lies strictly between 30 and 70 the
\* action is Neutral for every trend score: both the composite's action and
\* the view's Recommended Action.
C13_FairValueNeutral ==
    /\ (pc \in {"render", "done"} /\ RGt(composite.valuation_score, 30)
            /\ RLt(composite.valuation_score, 70))
          => composite.action = "Neutral"
    /\ (pc = "done" /\ RGt(composite.valuation_score, 30)
            /\ RLt(composite.valuation_score, 70))
          => view.current_action = "Neutral"

Actions == {"Accumulate", "Trim", "Neutral", "Wait"}

\* C14: for every pair of finite scores the composite's action and the
\* view's Recommended Action are each one of Accumulate, Trim, Neutral, Wait.
C14_ActionWellTyped ==
    /\ pc \in {"render", "done"} => composite.action \in Actions
    /\ pc = "done" => view.current_action \in Actions

\* C15: a non-finite reading (NaN, +inf, -inf) is rejected: the indicator
\* gets no state and no record the composite could take a proxy from.
C15_NonFiniteRejected ==
    (pc = "classified" /\ ~IsFinite(input.value))
        => /\ ~HasReading(input.name)
           /\ ~Present(metrics, input.name)

\* The maximum of the last 252 closes of a series (of all of them when the
\* series is shorter).
TrailingHigh(closes) ==
    LET n == Len(closes)
        rows == {i \in 1..n : i > n - 252}
    IN CHOOSE m \in {closes[i] : i \in rows} : \A i \in rows : closes[i] <= m

StrictlyIncreasing(s) == \A i \in 2..Len(s) : s[i] > s[i - 1]
StrictlyDecreasing(s) == \A i \in 2..Len(s) : s[i] < s[i - 1]

\* C16: the 50-day moving average of the asset view is the mean of the last
\* 50 closes whenever the series has at least 50 closes, and is not available
\* when it has fewer.
C16_SimpleMovingAverage ==
    (pc = "done" /\ caller = "asset")
        => IF Len(input.asset_data) >= 50
           THEN /\ view.moving_average.shown
                /\ view.moving_average.value =
                       Rat(SumSeq(SubSeq(input.asset_data, Len(input.asset_data) - 49,
                                         Len(input.asset_data))), 50)
           ELSE ~view.moving_average.shown

\* C17: with fewer than 15 closes the asset view shows no RSI value and no
\* RSI label.
C17_RsiNeedsFifteen ==
    (pc = "done" /\ caller = "asset" /\ Len(input.asset_data) < 15)
        => ~view.rsi.shown

\* C18: on a strictly increasing series of 20 closes the RSI is 100 and is
\* labelled Overbought; on a strictly decreasing one it is 0 and is labelled
\* Oversold.
C18_RsiMonotone ==
    (pc = "done" /\ caller = "asset" /\ Len(input.asset_data) = 20)
        => /\ StrictlyIncreasing(input.asset_data)
                => /\ view.rsi.shown
                   /\ view.rsi.value = [num |-> 100, den |-> 1]
                   /\ view.rsi.label = "Overbought"
           /\ StrictlyDecreasing(input.asset_data)
                => /\ view.rsi.shown
                   /\ view.rsi.value = [num |-> 0, den |-> 1]
                   /\ view.rsi.label = "Oversold"

\* C18 witness: a rising series of 20 closes was rendered with RSI 100,
\* Overbought.
C18_Witness ==
    /\ pc = "done"
    /\ caller = "asset"
    /\ Len(input.asset_data) = 20
    /\ StrictlyIncreasing(input.asset_data)
    /\ view.rsi.shown
    /\ view.rsi.label = "Overbought"

\* C19: the drawdown is shown exactly when the series has at least 252
\* closes; it is (last close - highest of the last 252 closes) / that high
\* x 100, is never positive, and is 0 when the last close is that high.
C19_Drawdown ==
    (pc = "done" /\ caller = "asset" /\ view.raised = "none")
        => LET closes == input.asset_data
               last == closes[Len(closes)]
           IN /\ view.drawdown.shown <=> Len(closes) >= 252
              /\ view.drawdown.shown
                   => /\ view.drawdown.value =
                            Rat((last - TrailingHigh(closes)) * 100, TrailingHigh(closes))
                      /\ view.drawdown.value.num <= 0
                      /\ last = TrailingHigh(closes)
                            => view.drawdown.value = [num |-> 0, den |-> 1]

\* C19 witness: a series longer than 252 closes whose highest close is older
\* than the last 252 was rendered with a drawdown below zero.
C19_Witness ==
    /\ pc = "done"
    /\ caller = "asset"
    /\ Len(input.asset_data) > 252
    /\ input.asset_data[1] > TrailingHigh(input.asset_data)
    /\ view.drawdown.shown
    /\ view.drawdown.value.num < 0

\* C20: a series shorter than 20 closes gets no volatility and a series
\* shorter than the moving-average window gets no moving average, neither in
\* the metrics nor on the chart: the metric is left out, it is not shown as
\* zero, and the view raises nothing.
C20_UnavailableBelowWindow ==
    (pc = "done" /\ caller = "asset")
        => LET n == Len(input.asset_data)
           IN /\ n < 20 => view.volatility = Omitted
              /\ n < 50 => /\ view.moving_average = Omitted
                           /\ view.chart # "price with SMA_50 and SMA_200"
                           /\ view.raised = "none"

\* The number of rows of the trailing window of a series that hold a defined
\* difference to the row before (the first row of a series holds none).
DefinedInWindow(closes, window) ==
    Cardinality({i \in 1..Len(closes) : i > Len(closes) - window /\ i > 1})

\* C21: whenever the asset view displays the 20-day volatility, the trailing
\* window holds 20 defined daily returns, and whenever it displays the
\* RSI(14), the trailing window holds 14 defined deltas.
C21_WindowsPopulated ==
    (pc = "done" /\ caller = "asset")
        => /\ view.volatility.shown
                => /\ DefinedInWindow(input.asset_data, 20) = 20
                   /\ view.volatility.defined
           /\ view.rsi.shown => DefinedInWindow(input.asset_data, 14) = 14

\* C22: in the signals view the Recommended Action is the action in the
\* highlighted cell of the matrix, for every valuation and trend score.
C22_RecommendedIsHighlighted ==
    (pc = "done" /\ caller = "signals") => view.current_action = view.highlighted

\* C23: the DataManager calls never raise (each catches its own exceptions),
\* so no view ever takes the demo fallback: none reaches the except branch
\* and none renders the demo metrics or the demo price series.
C23_FallbackOnlyOnFailure ==
    caller \in Views
        => /\ pc # "fallback"
           /\ (pc \in {"render", "done"} /\ caller # "asset") => metrics # GetDemoMetrics
           /\ (pc \in {"render", "done"} /\ caller = "asset")
                 => input.asset_data \notin GenerateDemoStockData

\* C24: for every metrics dict calculate_composite_score returns trend_score
\* 60 and an action that is Accumulate exactly when the valuation score is
\* <= 30 and Neutral otherwise, hence never Trim and never Wait.
C24_FixedTrendActions ==
    (pc = "done" /\ caller = "test")
        => /\ composite.trend_score = 60
           /\ composite.action \notin {"Trim", "Wait"}
           /\ composite.action =
                 IF RLe(composite.valuation_score, 30) THEN "Accumulate" ELSE "Neutral"

\* C24 witness: a dict whose valuation score is >= 70 was scored, and the
\* action returned is Neutral.
C24_Witness ==
    /\ pc = "done"
    /\ caller = "test"
    /\ RGe(composite.valuation_score, 70)
    /\ composite.action = "Neutral"

\* C25: in every run of the signals view the score drawn on the valuation
\* gauge equals the composite's valuation_score.
C25_GaugeIsCompositeScore ==
    (pc = "done" /\ caller = "signals" /\ view.gauge_shown)
        => view.gauge_value = composite.valuation_score

\* C26: every line of the Individual Scores list is labelled with an
\* indicator that holds a reading, and shows the proxy of that indicator's
\* state.
C26_ScoresLabelledByIndicator ==
    (pc = "done" /\ caller = "signals")
        => \A i \in DOMAIN view.individual :
              /\ Present(metrics, view.individual[i].label)
              /\ view.individual[i].score =
                    Proxy(Get(metrics[view.individual[i].label], "state", "yellow"))

\* C27: the valuation gauge is green iff its score is <= 30, red iff it is
\* >= 70 and yellow otherwise; the trend gauge is green iff the trend score
\* is >= 60, red iff it is <= 40 and yellow otherwise.
C27_GaugeColoursMatchBuckets ==
    (pc = "done" /\ caller = "signals")
        => /\ view.gauge_shown
                => view.gauge_color =
                      IF RLe(view.gauge_value, 30) THEN "green"
                      ELSE IF RGe(view.gauge_value, 70) THEN "red"
                      ELSE "yellow"
           /\ view.trend_color =
                 IF composite.trend_score >= 60 THEN "green"
                 ELSE IF composite.trend_score <= 40 THEN "red"
                 ELSE "yellow"

\* green < yellow < red
Rank(state) == IF state = "green" THEN 0 ELSE IF state = "yellow" THEN 1 ELSE 2

\* C28: for each of the six indicators, a reading at or above the classified
\* one never gets a better state and a reading at or below it never gets a
\* worse one.
C28_Monotone ==
    pc = "classified"
        => \A other \in Readings(input.name) :
              /\ Le(input.value, other)
                    => Rank(metrics[input.name].state) <= Rank(Classify(input.name, other))
              /\ Le(other, input.value)
                    => Rank(Classify(input.name, other)) <= Rank(metrics[input.name].state)

\* C28 witness: a sentiment score was classified yellow, with a lower score
\* that is green and a higher one that is red.
C28_Witness ==
    /\ pc = "classified"
    /\ input.name = "sentiment"
    /\ metrics["sentiment"].state = "yellow"
    /\ \E lo \in Readings("sentiment") :
          Le(lo, input.value) /\ Classify("sentiment", lo) = "green"
    /\ \E hi \in Readings("sentiment") :
          Le(input.value, hi) /\ Classify("sentiment", hi) = "red"

\* C29: show_asset_browser raises on no price series of one or more closes.
C29_AssetBrowserNeverRaises ==
    (pc = "done" /\ caller = "asset" /\ Len(input.asset_data) >= 1)
        => view.raised = "none"

\* C30: the summary strip's three counts are the numbers of the six metrics
\* that are non-empty and carry that state; the assessment is Overvalued iff
\* at least 3 are red, Undervalued iff at least 3 are green and fewer than 3
\* red, Mixed otherwise.
C30_SummaryStrip ==
    (pc = "done" /\ caller = "overview")
        => /\ \A s \in States : view.summary.states[s] = CountState(Names, s)
           /\ view.summary.states.green + view.summary.states.yellow
                 + view.summary.states.red
                 = Cardinality({n \in Names : HasReading(n) /\ "state" \in DOMAIN metrics[n]})
           /\ view.summary.overall_state =
                 IF CountState(Names, "red") >= 3 THEN "Overvalued"
                 ELSE IF CountState(Names, "green") >= 3 THEN "Undervalued"
                 ELSE "Mixed"

\* C30 witness: three metrics are red, sentiment among them, three are green,
\* and the strip says Overvalued.
C30_Witness ==
    /\ pc = "done"
    /\ caller = "overview"
    /\ CountState(Names, "red") = 3
    /\ CountState(Names, "green") = 3
    /\ HasReading("sentiment")
    /\ "state" \in DOMAIN metrics["sentiment"]
    /\ metrics["sentiment"].state = "red"
    /\ view.summary.overall_state = "Overvalued"

====
